---------------------------- MODULE Spec2Model ----------------------------
(***************************************************************************)
(* A model of the two build-time scripts of PakUni:                        *)
(*   src/generate_logos.py          (the mapping generator)                *)
(*   src/scripts/generate-icons.py  (the icon generator)                   *)
(* Each script is one sequential process; its statements are the actions.  *)
(* A Python str is a sequence of Unicode code points.                      *)
(***************************************************************************)
EXTENDS Integers, Sequences, FiniteSets, TLC

VARIABLES
    \* ---- generate_logos.py ----
    csv,          \* the file 'universities DATA.csv' (input, never written)
    outFile0,     \* 'university_logos_complete.ts' as it was before the run
    outFile,      \* 'university_logos_complete.ts' now
    pcMap,        \* the statement the script is at
    err,          \* the uncaught exception that ended the run, or "none"
    i,            \* number of rows the reader has yielded
    universities, \* dict name -> logo_url
    lines,        \* list of output lines
    stdout,       \* what has been printed
    \* ---- scripts/generate-icons.py ----
    svg,          \* the two vector sources: "ok", "missing" or "malformed"
    dirs,         \* the destination directories that exist
    fs,           \* path -> the file there (NoFile when there is none)
    stamp,        \* temporary file -> the run and tier that wrote it last
    fs0,          \* fs when the current run began
    dirs0,        \* dirs when the current run began
    prevOK,       \* the run before the current one completed
    run,          \* number of the current run
    pcIcon,       \* the statement the script is at
    errIcon,      \* the uncaught exception that ended the run, or "none"
    tier,         \* number of iterations of the MIPMAP_SIZES loop begun
    icon_fg,      \* the image opened at line 54
    fg            \* the image opened at line 108

mapVars == <<csv, outFile0, outFile, pcMap, err, i, universities, lines, stdout>>

iconVars == <<svg, dirs, fs, stamp, fs0, dirs0, prevOK, run, pcIcon, errIcon,
              tier, icon_fg, fg>>

vars == <<mapVars, iconVars>>

-----------------------------------------------------------------------------
(* Bounds of the model *)

\* rows in the CSV file
MaxRows == 2

\* runs of the icon generator, one after the other
MaxRuns == 2

-----------------------------------------------------------------------------
(* Python values *)

\* None, kept apart from every str (no code point is negative)
None == <<-1>>

\* str.isspace(): the characters str.strip() removes
Whitespace ==
    (9..13) \cup (28..32) \cup {133, 160, 5760} \cup (8192..8202)
        \cup {8232, 8233, 8239, 8287, 12288}

RECURSIVE lstrip(_)
lstrip(s) ==
    IF s # <<>> /\ Head(s) \in Whitespace THEN lstrip(Tail(s)) ELSE s

RECURSIVE rstrip(_)
rstrip(s) ==
    IF s # <<>> /\ s[Len(s)] \in Whitespace
    THEN rstrip(SubSeq(s, 1, Len(s) - 1))
    ELSE s

strip(s) == rstrip(lstrip(s))

\* the letters of Latin-1 beyond ASCII (str.isalnum() holds of them)
Latin1Letters == {170, 181, 186} \cup (192..214) \cup (216..246) \cup (248..255)

\* Python's  sub in s
Contains(sub, s) ==
    \E k \in 1..(Len(s) - Len(sub) + 1) : SubSeq(s, k, k + Len(sub) - 1) = sub

\* Python's  a < b  on str: by code point, a proper prefix first
RECURSIVE StrLess(_, _)
StrLess(a, b) ==
    IF b = <<>> THEN FALSE
    ELSE IF a = <<>> THEN TRUE
    ELSE IF a[1] # b[1] THEN a[1] < b[1]
    ELSE StrLess(Tail(a), Tail(b))

\* Python's  p < q  on (name, url) tuples
ItemLess(p, q) ==
    StrLess(p[1], q[1]) \/ (p[1] = q[1] /\ StrLess(p[2], q[2]))

-----------------------------------------------------------------------------
(* generate_logos.py: constants of the script *)

MediaFrag == <<35, 47, 109, 101, 100, 105, 97>>                \* '#/media'
DataImage == <<100, 97, 116, 97, 58, 105, 109, 97, 103, 101>>  \* 'data:image'
NotHave   == <<78, 111, 116, 32, 104, 97, 118, 101>>           \* 'Not have'
Dangerous == <<68, 97, 110, 103, 101, 114, 111, 117, 115>>     \* 'Dangerous'

\* [a-zA-Z0-9]
AsciiAlnum == (48..57) \cup (65..90) \cup (97..122)

Fixed(text) == [kind |-> "fixed", text |-> text]
Entry(chars) == [kind |-> "entry", chars |-> chars]

HeaderLines ==
    << Fixed("export const UNIVERSITY_LOGO_MAP: Record<string, string> = {"),
       Fixed("  // All 257 Pakistani Universities - Logo URLs from Official Sources"),
       Fixed("  // Updated: January 2026"),
       Fixed("  // Auto-generated from CSV data"),
       Fixed("") >>

ClosingLine == Fixed("};")

-----------------------------------------------------------------------------
(* generate_logos.py: the inputs the model runs the script on *)

ExampleUrl ==   \* 'https://example.com/logo.png'
    <<104, 116, 116, 112, 115, 58, 47, 47, 101, 120, 97, 109, 112, 108, 101,
      46, 99, 111, 109, 47, 108, 111, 103, 111, 46, 112, 110, 103>>
QuaidName ==    \* 'Quaid-i-Azam University'
    <<81, 117, 97, 105, 100, 45, 105, 45, 65, 122, 97, 109, 32, 85, 110, 105,
      118, 101, 114, 115, 105, 116, 121>>

NameFields ==
    { <<97>>,            \* 'a'
      <<32>>,            \* ' '
      <<32, 97, 9>>,     \* ' a\t'
      <<97, 45>>,        \* 'a-'
      <<45, 98>>,        \* '-b'
      <<97, 233>>,       \* 'a' + e-acute
      QuaidName }

GoodUrls == { ExampleUrl, <<32, 117, 10>> }     \* the second is ' u\n'

BadUrls ==
    { None,                                  \* a short row
      <<>>,                                  \* ''
      <<32, 9>>,                             \* ' \t'
      <<117>> \o MediaFrag,                  \* 'u#/media'
      DataImage \o <<47, 112, 110, 103>>,    \* 'data:image/png'
      NotHave,                               \* 'Not have'
      <<32>> \o Dangerous \o <<33>> }        \* ' Dangerous!'

Rows ==
    [university_name : NameFields, logo_url : GoodUrls]
        \cup [university_name : {<<97>>}, logo_url : BadUrls]
        \cup [university_name : {<<45, 98>>, QuaidName},
              logo_url : {<<32>> \o Dangerous \o <<33>>}]
        \cup {[university_name |-> None, logo_url |-> ExampleUrl]}

\* rows of a file whose header lacks one of the two columns
RowsNoUrlColumn == [university_name : {<<97>>}]
RowsNoNameColumn == [logo_url : {ExampleUrl, <<>>}]

SeqUpTo(S, n) == UNION {[1..k -> S] : k \in 0..n}

NoCsv == [exists |-> FALSE, cols |-> {}, rows |-> <<>>]

CsvInputs ==
    {NoCsv}
        \cup {[exists |-> TRUE, cols |-> {"university_name", "logo_url"}, rows |-> r] :
                r \in SeqUpTo(Rows, MaxRows)}
        \cup {[exists |-> TRUE, cols |-> {"university_name"}, rows |-> r] :
                r \in SeqUpTo(RowsNoUrlColumn, MaxRows)}
        \cup {[exists |-> TRUE, cols |-> {"logo_url"}, rows |-> r] :
                r \in SeqUpTo(RowsNoNameColumn, MaxRows)}

\* the output file: absent, or a list of lines
Absent == <<[kind |-> "absent"]>>
OldContent == <<Fixed("export const UNIVERSITY_LOGO_MAP = {};")>>

-----------------------------------------------------------------------------
(* generate_logos.py: the script *)

\* the filter without its last test
UrlValid_NoDangerous(logo_url) ==
    /\ logo_url # <<>>
    /\ ~Contains(MediaFrag, logo_url)
    /\ ~Contains(DataImage, logo_url)
    /\ ~Contains(NotHave, logo_url)

\* the filter of lines 14-18
UrlValid(logo_url) ==
    /\ logo_url # <<>>
    /\ ~Contains(MediaFrag, logo_url)
    /\ ~Contains(DataImage, logo_url)
    /\ ~Contains(NotHave, logo_url)
    /\ ~Contains(Dangerous, logo_url)

\* line 11:  row['logo_url'].strip() if row['logo_url'] else ''
LogoUrlOf(field) == IF field = None \/ field = <<>> THEN <<>> ELSE strip(field)

\* universities.setdefault(name, logo_url): the first row of a name wins
DictSet_KeepFirst(d, k, v) ==
    [x \in (DOMAIN d) \cup {k} |-> IF x \in DOMAIN d THEN d[x] ELSE v]

\* line 19:  universities[name] = logo_url
DictSet(d, k, v) == [x \in (DOMAIN d) \cup {k} |-> IF x = k THEN v ELSE d[x]]

EmptyDict == [x \in {} |-> <<>>]

\* universities.items()
Items(d) == {<<k, d[k]>> : k \in DOMAIN d}

\* re.sub(r'\W', '', name): the letters beyond ASCII and '_' are kept
short_key_word(name) ==
    SelectSeq(name, LAMBDA c : c \in AsciiAlnum \cup {95} \cup Latin1Letters)

\* line 34:  re.sub(r'[^a-zA-Z0-9]', '', name)
short_key(name) == SelectSeq(name, LAMBDA c : c \in AsciiAlnum)

\* the items sorted by the key derived from the name, not by the name
RECURSIVE sorted_by_key(_)
sorted_by_key(S) ==
    IF S = {} THEN <<>>
    ELSE LET m == CHOOSE x \in S : \A y \in S \ {x} :
                    ~StrLess(short_key(y[1]), short_key(x[1]))
         IN  <<m>> \o sorted_by_key(S \ {m})

\* sorted(...) of a set of (name, url) tuples
RECURSIVE sorted(_)
sorted(S) ==
    IF S = {} THEN <<>>
    ELSE LET m == CHOOSE x \in S : \A y \in S \ {x} : ItemLess(x, y)
         IN  <<m>> \o sorted(S \ {m})

\* line 35:  f"  '{short_key}': '{url}',"
EntryLine(key, url) ==
    Entry(<<32, 32, 39>> \o key \o <<39, 58, 32, 39>> \o url \o <<39, 44>>)

\* lines 32-35: one line per item of the sorted dict
EntryLines(d) ==
    LET s == sorted(Items(d))
    IN  [k \in 1..Len(s) |-> EntryLine(short_key(s[k][1]), s[k][2])]

\* the state in which the script starts
MapStart ==
    /\ csv \in CsvInputs
    /\ outFile0 \in {Absent, OldContent}
    /\ outFile = outFile0
    /\ pcMap = "open_csv"
    /\ err = [type |-> "none", line |-> 0]
    /\ i = 0
    /\ universities = EmptyDict
    /\ lines = <<>>
    /\ stdout = <<>>

\* an uncaught exception of type e raised at line ln ends the run
Raise(e, ln) ==
    /\ pcMap' = "failed"
    /\ err' = [type |-> e, line |-> ln]

\* the output file opened for writing together with the CSV file
OpenCsv_OutputFirst ==
    /\ pcMap = "open_csv"
    /\ IF csv.exists
       THEN pcMap' = "read" /\ err' = err
       ELSE Raise("FileNotFoundError", 7)
    /\ outFile' = <<>>
    /\ UNCHANGED <<csv, outFile0, i, universities, lines, stdout>>
    /\ UNCHANGED iconVars

\* lines 6-8: open the CSV file and read its header
OpenCsv ==
    /\ pcMap = "open_csv"
    /\ IF csv.exists
       THEN pcMap' = "read" /\ err' = err
       ELSE Raise("FileNotFoundError", 7)
    /\ UNCHANGED <<csv, outFile0, outFile, i, universities, lines, stdout>>
    /\ UNCHANGED iconVars

\* lines 9-19: one iteration of the loop over the rows
ReadRow ==
    /\ pcMap = "read"
    /\ i < Len(csv.rows)
    /\ \/ LET row == csv.rows[i + 1] IN
          IF "university_name" \notin csv.cols
          THEN Raise("KeyError", 10) /\ UNCHANGED <<i, universities>>
          ELSE IF row.university_name = None
          THEN Raise("AttributeError", 10) /\ UNCHANGED <<i, universities>>
          ELSE IF "logo_url" \notin csv.cols
          THEN Raise("KeyError", 11) /\ UNCHANGED <<i, universities>>
          ELSE LET name == strip(row.university_name)
                   logo_url == LogoUrlOf(row.logo_url)
               IN  /\ universities' = IF UrlValid(logo_url)
                                      THEN DictSet(universities, name, logo_url)
                                      ELSE universities
                   /\ i' = i + 1
                   /\ UNCHANGED <<pcMap, err>>
       \* the bytes of the row are not UTF-8, or the read fails
       \/ Raise("UnicodeDecodeError", 9) /\ UNCHANGED <<i, universities>>
    /\ UNCHANGED <<csv, outFile0, outFile, lines, stdout>>
    /\ UNCHANGED iconVars

\* lines 21-46: the rows are exhausted; print the count, build the lines
Generate ==
    /\ pcMap = "read"
    /\ i = Len(csv.rows)
    /\ LET n == Cardinality(DOMAIN universities)
           ls == HeaderLines \o EntryLines(universities) \o <<ClosingLine>>
       IN  /\ lines' = ls
           /\ stdout' = stdout \o
                << [text |-> "Total valid universities", n |-> n],
                   [text |-> "Generated mappings", n |-> n],
                   [text |-> "First 5 entries",
                    shown |-> SubSeq(ls, 6, IF Len(ls) < 10 THEN Len(ls) ELSE 10)],
                   [text |-> "Last 5 entries",
                    shown |-> SubSeq(ls, Len(ls) - 5, Len(ls) - 1)] >>
    /\ pcMap' = "open_out"
    /\ UNCHANGED <<csv, outFile0, outFile, err, i, universities>>
    /\ UNCHANGED iconVars

\* line 49: open(..., 'w') creates or truncates the file, or raises
OpenOut ==
    /\ pcMap = "open_out"
    /\ \/ outFile' = <<>> /\ pcMap' = "write" /\ err' = err
       \/ Raise("OSError", 49) /\ outFile' = outFile
    /\ UNCHANGED <<csv, outFile0, i, universities, lines, stdout>>
    /\ UNCHANGED iconVars

\* line 50: f.write('\n'.join(lines)) and the close; a failure leaves a prefix
WriteOut ==
    /\ pcMap = "write"
    /\ \/ /\ outFile' = lines
          /\ pcMap' = "done"
          /\ err' = err
          /\ stdout' = Append(stdout, [text |-> "Saved to university_logos_complete.ts"])
       \/ /\ \E k \in 0..(Len(lines) - 1) : outFile' = SubSeq(lines, 1, k)
          /\ Raise("OSError", 50)
          /\ stdout' = stdout
    /\ UNCHANGED <<csv, outFile0, i, universities, lines>>
    /\ UNCHANGED iconVars

NextMap == OpenCsv \/ ReadRow \/ Generate \/ OpenOut \/ WriteOut

-----------------------------------------------------------------------------
(* scripts/generate-icons.py: paths and images *)

SVG_LOGO == "pakuni-logo.svg"
SVG_ICON == "pakuni-icon.svg"

IMG_DIR == "src/assets/images"
STORE_DIR == "store-listing"

\* the table with one size mistyped
MIPMAP_SIZES_Typo ==
    << [folder |-> "mipmap-mdpi", size |-> 48],
       [folder |-> "mipmap-hdpi", size |-> 72],
       [folder |-> "mipmap-xhdpi", size |-> 96],
       [folder |-> "mipmap-xxhdpi", size |-> 128],
       [folder |-> "mipmap-xxxhdpi", size |-> 192] >>

\* MIPMAP_SIZES, in the order the dict lists (and the loop visits) them
MIPMAP_SIZES ==
    << [folder |-> "mipmap-mdpi", size |-> 48],
       [folder |-> "mipmap-hdpi", size |-> 72],
       [folder |-> "mipmap-xhdpi", size |-> 96],
       [folder |-> "mipmap-xxhdpi", size |-> 144],
       [folder |-> "mipmap-xxxhdpi", size |-> 192] >>

NTiers == Len(MIPMAP_SIZES)

\* os.path.join(ANDROID_RES, folder)
ResDir(folder) == "android/app/src/main/res/" \o folder

TierDirs == {ResDir(MIPMAP_SIZES[t].folder) : t \in 1..NTiers}
AllDirs == {IMG_DIR, STORE_DIR} \cup TierDirs

LOGO_PNG == <<IMG_DIR, "pakuni-logo.png">>
ICON_PNG == <<IMG_DIR, "pakuni-icon.png">>
ROUND_PNG == <<IMG_DIR, "pakuni-icon-round.png">>
STORE_PNG == <<STORE_DIR, "icon-512.png">>
TEMP_ICON == <<IMG_DIR, "_temp_icon.png">>
TEMP_MIPMAP == <<IMG_DIR, "_temp_mipmap.png">>
Launcher(t) == <<ResDir(MIPMAP_SIZES[t].folder), "ic_launcher.png">>
LauncherRound(t) == <<ResDir(MIPMAP_SIZES[t].folder), "ic_launcher_round.png">>

TempPaths == {TEMP_ICON, TEMP_MIPMAP}
OutputPaths ==
    {LOGO_PNG, ICON_PNG, ROUND_PNG, STORE_PNG}
        \cup {Launcher(t) : t \in 1..NTiers} \cup {LauncherRound(t) : t \in 1..NTiers}

\* files of the project that the script has nothing to do with
UnrelatedPaths ==
    { <<IMG_DIR, "splash.png">>,
      <<STORE_DIR, "feature-graphic.png">>,
      <<ResDir("mipmap-mdpi"), "ic_launcher_foreground.png">> }

Paths == OutputPaths \cup TempPaths \cup UnrelatedPaths

NoFile == [kind |-> "none"]
OtherFile == [kind |-> "other"]     \* a file some other tool or run left
NoImage == [kind |-> "none"]
White == <<255, 255, 255>>

\* cairosvg.svg2png(url=src, output_width=w, output_height=h): an RGBA PNG
Render(src, w, h) ==
    [kind |-> "render", src |-> src, w |-> w, h |-> h, mode |-> "RGBA"]

\* Image.resize((w, h), Image.LANCZOS)
Resize(img, w, h) ==
    [kind |-> "resized", of |-> img, w |-> w, h |-> h, mode |-> img.mode]

\* Image.new(mode, (size, size), white), fg pasted at (x, y) through its own
\* alpha; with ellipse = TRUE the result is pasted onto a transparent canvas
\* through a mask that is opaque inside ellipse (0, 0, size, size)
Composite(mode, size, fgImg, x, y, ellipse) ==
    [kind |-> "composite", mode |-> mode, w |-> size, h |-> size,
     bg |-> White, fg |-> fgImg, x |-> x, y |-> y, ellipse |-> ellipse]

\* line 101:  int(size * 0.78)
inner_size(size) == (size * 78) \div 100

NoStamp == [run |-> 0, tier |-> 0]

-----------------------------------------------------------------------------
(* scripts/generate-icons.py: the script *)

\* the file systems a run may find
InitialDirs == { {}, {IMG_DIR, STORE_DIR}, AllDirs }
InitialFiles(ds) ==
    { [p \in Paths |-> IF p \in S THEN OtherFile ELSE NoFile] :
        S \in SUBSET {p \in TempPaths \cup UnrelatedPaths
                              \cup {LOGO_PNG, STORE_PNG, LauncherRound(1)} :
                        p[1] \in ds} }

\* the state in which the script starts
IconStart ==
    /\ svg \in [{SVG_LOGO, SVG_ICON} -> {"ok", "missing", "malformed"}]
    /\ dirs \in InitialDirs
    /\ fs \in InitialFiles(dirs)
    /\ stamp = [p \in TempPaths |-> NoStamp]
    /\ fs0 = fs
    /\ dirs0 = dirs
    /\ prevOK = FALSE
    /\ run = 1
    /\ pcIcon = "mkdir_img"
    /\ errIcon = [type |-> "none", line |-> 0]
    /\ tier = 0
    /\ icon_fg = NoImage
    /\ fg = NoImage

\* an uncaught exception of type e raised at line ln ends the run
IconRaise(e, ln) ==
    /\ pcIcon' = "failed"
    /\ errIcon' = [type |-> e, line |-> ln]

Goto(next) ==
    /\ pcIcon' = next
    /\ errIcon' = errIcon

\* cairosvg.svg2png(url=src, write_to=path, ...) at line ln: the source is
\* read and rendered, then the file is written; either may fail
Svg2Png(src, path, w, h, ln, next) ==
    IF svg[src] = "missing"
    THEN IconRaise("FileNotFoundError", ln) /\ UNCHANGED <<fs, stamp>>
    ELSE IF svg[src] = "malformed"
    THEN IconRaise("ParseError", ln) /\ UNCHANGED <<fs, stamp>>
    ELSE \/ /\ fs' = [fs EXCEPT ![path] = Render(src, w, h)]
            /\ stamp' = IF path \in TempPaths
                        THEN [stamp EXCEPT ![path] = [run |-> run, tier |-> tier]]
                        ELSE stamp
            /\ Goto(next)
         \/ IconRaise("OSError", ln) /\ UNCHANGED <<fs, stamp>>

\* image.save(path) inside try/finally: a failed write removes the temporaries
Save_Cleanup(image, path, ln, next) ==
    \/ fs' = [fs EXCEPT ![path] = image] /\ Goto(next)
    \/ /\ IconRaise("OSError", ln)
       /\ fs' = [p \in Paths |-> IF p \in TempPaths THEN NoFile ELSE fs[p]]

\* image.save(path) at line ln: the file is written, or the write fails
Save(image, path, ln, next) ==
    \/ fs' = [fs EXCEPT ![path] = image] /\ Goto(next)
    \/ IconRaise("OSError", ln) /\ fs' = fs

\* Image.open(path).convert("RGBA") at line ln
OpenRGBA(path, ln) ==
    IF fs[path] = NoFile THEN NoImage ELSE [fs[path] EXCEPT !.mode = "RGBA"]

\* os.makedirs(d, exist_ok=True)
makedirs(ds, d) == ds \cup {d}

\* line 21
MkImgDir ==
    /\ pcIcon = "mkdir_img"
    /\ dirs' = makedirs(dirs, IMG_DIR)
    /\ Goto("mkdir_store")
    /\ UNCHANGED <<svg, fs, stamp, fs0, dirs0, prevOK, run, tier, icon_fg, fg>>
    /\ UNCHANGED mapVars

\* line 22
MkStoreDir ==
    /\ pcIcon = "mkdir_store"
    /\ dirs' = makedirs(dirs, STORE_DIR)
    /\ Goto("logo")
    /\ UNCHANGED <<svg, fs, stamp, fs0, dirs0, prevOK, run, tier, icon_fg, fg>>
    /\ UNCHANGED mapVars

\* lines 26-31: step 1, the full logo
RenderLogo ==
    /\ pcIcon = "logo"
    /\ Svg2Png(SVG_LOGO, LOGO_PNG, 400, 520, 26, "icon")
    /\ UNCHANGED <<svg, dirs, fs0, dirs0, prevOK, run, tier, icon_fg, fg>>
    /\ UNCHANGED mapVars

\* lines 36-41: step 2, the icon
RenderIcon ==
    /\ pcIcon = "icon"
    /\ Svg2Png(SVG_ICON, ICON_PNG, 512, 512, 36, "temp_icon")
    /\ UNCHANGED <<svg, dirs, fs0, dirs0, prevOK, run, tier, icon_fg, fg>>
    /\ UNCHANGED mapVars

\* lines 47-52: step 3, the intermediate render
RenderTempIcon ==
    /\ pcIcon = "temp_icon"
    /\ Svg2Png(SVG_ICON, TEMP_ICON, 400, 400, 47, "open_icon")
    /\ UNCHANGED <<svg, dirs, fs0, dirs0, prevOK, run, tier, icon_fg, fg>>
    /\ UNCHANGED mapVars

\* line 54
OpenIconFg ==
    /\ pcIcon = "open_icon"
    /\ IF fs[TEMP_ICON] = NoFile
       THEN IconRaise("FileNotFoundError", 54) /\ icon_fg' = icon_fg
       ELSE icon_fg' = OpenRGBA(TEMP_ICON, 54) /\ Goto("round")
    /\ UNCHANGED <<svg, dirs, fs, stamp, fs0, dirs0, prevOK, run, tier, fg>>
    /\ UNCHANGED mapVars

\* lines 57-71: the round icon
SaveRound ==
    /\ pcIcon = "round"
    /\ LET offset_x == (512 - 400) \div 2
           offset_y == (512 - 400) \div 2
           round_icon == Composite("RGBA", 512, icon_fg, offset_x, offset_y, TRUE)
       IN  Save(round_icon, ROUND_PNG, 71, "store")
    /\ UNCHANGED <<svg, dirs, stamp, fs0, dirs0, prevOK, run, tier, icon_fg, fg>>
    /\ UNCHANGED mapVars

\* step 4 with the offset not halved
SaveStore_NoHalf ==
    /\ pcIcon = "store"
    /\ LET icon_for_store == Resize(icon_fg, 420, 420)
           store_offset == 512 - 420
           store_icon == Composite("RGB", 512, icon_for_store,
                                   store_offset, store_offset, FALSE)
       IN  Save(store_icon, STORE_PNG, 81, "for_tier")
    /\ UNCHANGED <<svg, dirs, stamp, fs0, dirs0, prevOK, run, tier, icon_fg, fg>>
    /\ UNCHANGED mapVars

\* lines 76-81: step 4, the Play Store icon
SaveStore ==
    /\ pcIcon = "store"
    /\ LET icon_for_store == Resize(icon_fg, 420, 420)
           store_offset == (512 - 420) \div 2
           store_icon == Composite("RGB", 512, icon_for_store,
                                   store_offset, store_offset, FALSE)
       IN  Save(store_icon, STORE_PNG, 81, "for_tier")
    /\ UNCHANGED <<svg, dirs, stamp, fs0, dirs0, prevOK, run, tier, icon_fg, fg>>
    /\ UNCHANGED mapVars

\* the tier's directory removed and made anew
TierMkdir_Clearing ==
    /\ pcIcon = "for_tier"
    /\ tier < NTiers
    /\ tier' = tier + 1
    /\ dirs' = makedirs(dirs, ResDir(MIPMAP_SIZES[tier + 1].folder))
    /\ fs' = [p \in Paths |->
                IF p[1] = ResDir(MIPMAP_SIZES[tier + 1].folder) THEN NoFile ELSE fs[p]]
    /\ Goto("tier_render")
    /\ UNCHANGED <<svg, stamp, fs0, dirs0, prevOK, run, icon_fg, fg>>
    /\ UNCHANGED mapVars

\* lines 94-96: the loop takes the next tier and makes its directory
TierMkdir ==
    /\ pcIcon = "for_tier"
    /\ tier < NTiers
    /\ tier' = tier + 1
    /\ dirs' = makedirs(dirs, ResDir(MIPMAP_SIZES[tier + 1].folder))
    /\ Goto("tier_render")
    /\ UNCHANGED <<svg, fs, stamp, fs0, dirs0, prevOK, run, icon_fg, fg>>
    /\ UNCHANGED mapVars

\* the tier's render written over the intermediate render of step 3
TierRender_WrongFile ==
    /\ pcIcon = "tier_render"
    /\ LET size == MIPMAP_SIZES[tier].size
       IN  Svg2Png(SVG_ICON, TEMP_ICON, inner_size(size), inner_size(size),
                   102, "tier_open")
    /\ UNCHANGED <<svg, dirs, fs0, dirs0, prevOK, run, tier, icon_fg, fg>>
    /\ UNCHANGED mapVars

\* lines 99-107
TierRender ==
    /\ pcIcon = "tier_render"
    /\ LET size == MIPMAP_SIZES[tier].size
       IN  Svg2Png(SVG_ICON, TEMP_MIPMAP, inner_size(size), inner_size(size),
                   102, "tier_open")
    /\ UNCHANGED <<svg, dirs, fs0, dirs0, prevOK, run, tier, icon_fg, fg>>
    /\ UNCHANGED mapVars

\* line 108
TierOpen ==
    /\ pcIcon = "tier_open"
    /\ IF fs[TEMP_MIPMAP] = NoFile
       THEN IconRaise("FileNotFoundError", 108) /\ fg' = fg
       ELSE fg' = OpenRGBA(TEMP_MIPMAP, 108) /\ Goto("tier_square")
    /\ UNCHANGED <<svg, dirs, fs, stamp, fs0, dirs0, prevOK, run, tier, icon_fg>>
    /\ UNCHANGED mapVars

\* lines 109-111: the square launcher icon
TierSquare ==
    /\ pcIcon = "tier_square"
    /\ LET size == MIPMAP_SIZES[tier].size
           offset == (size - inner_size(size)) \div 2
           bg == Composite("RGB", size, fg, offset, offset, FALSE)
       IN  Save(bg, Launcher(tier), 111, "tier_round")
    /\ UNCHANGED <<svg, dirs, stamp, fs0, dirs0, prevOK, run, tier, icon_fg, fg>>
    /\ UNCHANGED mapVars

\* lines 115-122: the round launcher icon
TierRound ==
    /\ pcIcon = "tier_round"
    /\ LET size == MIPMAP_SIZES[tier].size
           offset == (size - inner_size(size)) \div 2
           round_result == Composite("RGBA", size, fg, offset, offset, TRUE)
       IN  Save(round_result, LauncherRound(tier), 122, "for_tier")
    /\ UNCHANGED <<svg, dirs, stamp, fs0, dirs0, prevOK, run, tier, icon_fg, fg>>
    /\ UNCHANGED mapVars

\* lines 127-129:  if os.path.exists(path): os.remove(path)
RemoveIfExists(f, path) == [f EXCEPT ![path] = NoFile]

\* lines 126-129, first iteration: the loop over the tiers is over
CleanupTempIcon ==
    /\ pcIcon = "for_tier"
    /\ tier = NTiers
    /\ fs' = RemoveIfExists(fs, TEMP_ICON)
    /\ stamp' = [stamp EXCEPT ![TEMP_ICON] = NoStamp]
    /\ Goto("cleanup_mipmap")
    /\ UNCHANGED <<svg, dirs, fs0, dirs0, prevOK, run, tier, icon_fg, fg>>
    /\ UNCHANGED mapVars

\* lines 126-138, second iteration, and the closing messages
CleanupTempMipmap ==
    /\ pcIcon = "cleanup_mipmap"
    /\ fs' = RemoveIfExists(fs, TEMP_MIPMAP)
    /\ stamp' = [stamp EXCEPT ![TEMP_MIPMAP] = NoStamp]
    /\ Goto("done")
    /\ UNCHANGED <<svg, dirs, fs0, dirs0, prevOK, run, tier, icon_fg, fg>>
    /\ UNCHANGED mapVars

\* the script is invoked again, on the file system the last run left
RunAgain ==
    /\ pcIcon \in {"done", "failed"}
    /\ run < MaxRuns
    /\ run' = run + 1
    /\ prevOK' = (pcIcon = "done")
    /\ fs0' = fs
    /\ dirs0' = dirs
    /\ pcIcon' = "mkdir_img"
    /\ errIcon' = [type |-> "none", line |-> 0]
    /\ tier' = 0
    /\ icon_fg' = NoImage
    /\ fg' = NoImage
    /\ UNCHANGED <<svg, dirs, fs, stamp>>
    /\ UNCHANGED mapVars

NextIcon ==
    \/ MkImgDir \/ MkStoreDir \/ RenderLogo \/ RenderIcon \/ RenderTempIcon
    \/ OpenIconFg \/ SaveRound \/ SaveStore
    \/ TierMkdir \/ TierRender \/ TierOpen \/ TierSquare \/ TierRound
    \/ CleanupTempIcon \/ CleanupTempMipmap \/ RunAgain

-----------------------------------------------------------------------------
(* The two scripts share nothing: each is checked with the other not run. *)

MapOff ==
    /\ csv = NoCsv
    /\ outFile0 = Absent
    /\ outFile = Absent
    /\ pcMap = "off"
    /\ err = [type |-> "none", line |-> 0]
    /\ i = 0
    /\ universities = EmptyDict
    /\ lines = <<>>
    /\ stdout = <<>>

IconOff ==
    /\ svg = [s \in {SVG_LOGO, SVG_ICON} |-> "ok"]
    /\ dirs = {}
    /\ fs = [p \in Paths |-> NoFile]
    /\ stamp = [p \in TempPaths |-> NoStamp]
    /\ fs0 = fs
    /\ dirs0 = dirs
    /\ prevOK = FALSE
    /\ run = 0
    /\ pcIcon = "off"
    /\ errIcon = [type |-> "none", line |-> 0]
    /\ tier = 0
    /\ icon_fg = NoImage
    /\ fg = NoImage

InitMap == MapStart /\ IconOff
InitIcon == IconStart /\ MapOff

SpecMap == InitMap /\ [][NextMap]_vars
SpecIcon == InitIcon /\ [][NextIcon]_vars

-----------------------------------------------------------------------------
(* generate_logos.py: what the properties speak of *)

\* the script has built its list of lines
Generated == pcMap \in {"open_out", "write", "done"}

FullHeader == csv.cols = {"university_name", "logo_url"}

BadSubstrings == {MediaFrag, DataImage, NotHave, Dangerous}

\* a URL field that disqualifies its row: missing, blank, or with a bad substring
Disqualified(field) ==
    \/ field = None
    \/ \A k \in 1..Len(field) : field[k] \in Whitespace
    \/ \E b \in BadSubstrings : Contains(b, field)

\* s without its leading and trailing whitespace
Trimmed(s) ==
    IF \A k \in 1..Len(s) : s[k] \in Whitespace THEN <<>>
    ELSE LET first == CHOOSE a \in 1..Len(s) :
                    s[a] \notin Whitespace /\ \A k \in 1..(a - 1) : s[k] \in Whitespace
             last == CHOOSE b \in 1..Len(s) :
                    s[b] \notin Whitespace /\ \A k \in (b + 1)..Len(s) : s[k] \in Whitespace
         IN  SubSeq(s, first, last)

\* the rows of the file that survive the URL filter
Surviving ==
    IF csv.exists /\ FullHeader
    THEN {j \in 1..Len(csv.rows) : ~Disqualified(csv.rows[j].logo_url)}
    ELSE {}

RowName(j) == Trimmed(csv.rows[j].university_name)
RowUrl(j) == Trimmed(csv.rows[j].logo_url)

SurvivingNames == {RowName(j) : j \in Surviving}

\* the last row of S, in file order, that bears name n
LastRow(S, n) ==
    CHOOSE j \in S : RowName(j) = n /\ \A k \in S : RowName(k) = n => k <= j

\* s with every character outside `keep` removed
RECURSIVE Keep(_, _)
Keep(s, keep) ==
    IF s = <<>> THEN <<>>
    ELSE (IF Head(s) \in keep THEN <<Head(s)>> ELSE <<>>) \o Keep(Tail(s), keep)

Alphanumeric == AsciiAlnum \cup Latin1Letters

\* a orders before b: at the first place they differ a has the smaller code
\* point, or a ends there
NameBefore(a, b) ==
    \E k \in 1..(Len(b)) :
        /\ \A m \in 1..(k - 1) : m <= Len(a) /\ a[m] = b[m]
        /\ \/ k = Len(a) + 1
           \/ k <= Len(a) /\ a[k] < b[k]

\* the place of name n among the names N, in name order
Rank(N, n) == 1 + Cardinality({m \in N : NameBefore(m, n)})

\* reading an entry line back:   '<key>': '<url>',  (the key ends at the
\* first quote after the opening one)
Sep == <<39, 58, 32, 39>>
SepAt(c) ==
    CHOOSE p \in 4..Len(c) :
        /\ c[p] = 39 /\ \A q \in 4..(p - 1) : c[q] # 39
        /\ SubSeq(c, p, p + 3) = Sep
KeyOfLine(l) == SubSeq(l.chars, 4, SepAt(l.chars) - 1)
UrlOfLine(l) == SubSeq(l.chars, SepAt(l.chars) + 4, Len(l.chars) - 2)

\* the entry lines of a list of lines or of a file
EntriesOf(f) == {f[k] : k \in {m \in 1..Len(f) : f[m].kind = "entry"}}

\* the line the script owes the surviving row j, with keys made of `keep`
LineFor(j, keep) ==
    Entry(<<32, 32, 39>> \o Keep(csv.rows[j].university_name, keep) \o Sep
            \o RowUrl(j) \o <<39, 44>>)

QuaidLine ==   \*   'QuaidiAzamUniversity': 'https://example.com/logo.png',
    Entry(<<32, 32, 39, 81, 117, 97, 105, 100, 105, 65, 122, 97, 109, 85, 110,
            105, 118, 101, 114, 115, 105, 116, 121, 39, 58, 32, 39, 104, 116,
            116, 112, 115, 58, 47, 47, 101, 120, 97, 109, 112, 108, 101, 46, 99,
            111, 109, 47, 108, 111, 103, 111, 46, 112, 110, 103, 39, 44>>)

-----------------------------------------------------------------------------
(* C1 *)

\* C1: no entry line, in the list of lines or in the output file, carries a
\* URL that is empty, blank or contains '#/media', 'data:image', 'Not have' or
\* 'Dangerous'; every entry carries the trimmed URL of a row that survives the
\* filter, so a row with a disqualified URL gives no entry, whatever its name
\* and whatever the other rows are.
C1_UrlFilter ==
    LET S == Surviving IN
    \A l \in EntriesOf(lines) \cup EntriesOf(outFile) :
        LET u == UrlOfLine(l) IN
        /\ ~Disqualified(u)
        /\ \E j \in S : u = RowUrl(j)

\* the run is over: a row whose URL contains 'Dangerous' was dropped while
\* another row gave an entry
C1_Witness ==
    /\ pcMap = "done"
    /\ EntriesOf(outFile) # {}
    /\ \E j \in 1..Len(csv.rows) :
          /\ csv.rows[j].logo_url # None
          /\ Contains(Dangerous, csv.rows[j].logo_url)
          /\ csv.rows[j].university_name = QuaidName

-----------------------------------------------------------------------------
(* C2 *)

\* a surviving row that no later surviving row of the same name replaces
Emitted == LET S == Surviving IN {j \in S : LastRow(S, RowName(j)) = j}

\* C2 as stated: the key is the name without its non-alphanumeric characters
\* (a letter beyond ASCII is alphanumeric), in the fixed line format.
C2_KeyAlphanumeric ==
    Generated =>
        LET got == EntriesOf(lines)
        IN  \A j \in Emitted : LineFor(j, Alphanumeric) \in got

\* C2 amended: the key of an emitted row is its name with every character
\* other than the ASCII letters and digits removed, the line is two spaces,
\* the quoted key, ': ', the quoted URL and a comma, and the file written holds
\* that line; 'Quaid-i-Azam University' gives the line of the example.
C2_KeyAsciiAlnum ==
    /\ Generated =>
          LET E == Emitted
              got == EntriesOf(lines)
          IN  /\ \A j \in E : LineFor(j, AsciiAlnum) \in got
              /\ \A l \in got : \E j \in E : l = LineFor(j, AsciiAlnum)
              /\ \A j \in E :
                    csv.rows[j] = [university_name |-> QuaidName, logo_url |-> ExampleUrl]
                        => QuaidLine \in got
    /\ pcMap = "done" => EntriesOf(outFile) = EntriesOf(lines)

\* the example's row and a name with a letter beyond ASCII were both written
C2_Witness ==
    /\ pcMap = "done"
    /\ QuaidLine \in EntriesOf(outFile)
    /\ \E j \in Emitted : csv.rows[j].university_name = <<97, 233>>

-----------------------------------------------------------------------------
(* C3 *)

\* C3: the entry lines stand in the order of the (trimmed) names they come
\* from, by code point: the line of the k-th smallest surviving name is the
\* k-th entry line, whatever the order of the rows; the keys need not ascend.
C3_OrderedByName ==
    Generated =>
        LET N == SurvivingNames IN
        \A n \in N :
            LET k == 5 + Rank(N, n) IN
            /\ k < Len(lines)
            /\ lines[k].kind = "entry"
            /\ KeyOfLine(lines[k]) = Keep(n, AsciiAlnum)

\* two rows given in descending name order were written in ascending name
\* order, and the keys of the two lines descend
C3_Witness ==
    /\ pcMap = "done"
    /\ Len(csv.rows) = 2
    /\ Cardinality(SurvivingNames) = 2
    /\ NameBefore(RowName(2), RowName(1))
    /\ NameBefore(KeyOfLine(outFile[7]), KeyOfLine(outFile[6]))

-----------------------------------------------------------------------------
(* C4 *)

\* C4 as stated: a failed run leaves the output file as it was.
C4_FailedRunLeavesOutput ==
    pcMap = "failed" => outFile = outFile0

\* C4 amended: an error met while the CSV is read (file missing, column
\* absent) or while the output file is opened ends the run with the output
\* file as it was and nothing further done; a failure of the write, after the
\* file is open, leaves it created or truncated with a proper prefix of the
\* lines.  The output file is untouched until line 49 opens it.
C4_FailureBeforeOpen ==
    /\ pcMap \in {"open_csv", "read", "open_out"} => outFile = outFile0
    /\ pcMap = "failed" /\ err.line < 50 => outFile = outFile0
    /\ pcMap = "failed" /\ err.line = 50 =>
          /\ outFile # outFile0
          /\ Len(outFile) < Len(lines)
          /\ outFile = SubSeq(lines, 1, Len(outFile))
    /\ pcMap = "failed" <=> err.type # "none"

\* a row without its name ended the run after an earlier row was accepted,
\* and the existing output file still has its old content
C4_Witness ==
    /\ pcMap = "failed"
    /\ err = [type |-> "AttributeError", line |-> 10]
    /\ i = 1
    /\ DOMAIN universities # {}
    /\ outFile = OldContent

-----------------------------------------------------------------------------
(* C10 *)

\* C10: there is exactly one entry line per distinct trimmed name among the
\* surviving rows, and both printed counts are that number; the line of a
\* name carries the URL of the last surviving row of that name; names that
\* share a key are not merged: each has its own line, at its place in name
\* order, so the last line with a key is that of the last such name.
C10_EntriesAndCollisions ==
    Generated =>
        LET S == Surviving
            N == {RowName(j) : j \in S}
        IN  /\ Len(lines) = 5 + Cardinality(N) + 1
            /\ Cardinality({k \in 1..Len(lines) : lines[k].kind = "entry"})
                  = Cardinality(N)
            /\ stdout[1].n = Cardinality(N)
            /\ stdout[2].n = Cardinality(N)
            /\ \A n \in N :
                  lines[5 + Rank(N, n)] = LineFor(LastRow(S, n), AsciiAlnum)
            /\ \A n, m \in N :
                  NameBefore(n, m) => Rank(N, n) < Rank(N, m)
            /\ pcMap = "done" => outFile = lines

\* two names with one key were written as two lines with that key
C10_Witness ==
    /\ pcMap = "done"
    /\ Cardinality(SurvivingNames) = 2
    /\ KeyOfLine(outFile[6]) = KeyOfLine(outFile[7])
    /\ UrlOfLine(outFile[6]) # UrlOfLine(outFile[7])

-----------------------------------------------------------------------------
(* scripts/generate-icons.py: what the properties speak of *)

\* the density tiers and their pixel sizes, and the ~78% render sizes
TierPixels ==
    << <<"mipmap-mdpi", 48, 37>>, <<"mipmap-hdpi", 72, 56>>,
       <<"mipmap-xhdpi", 96, 74>>, <<"mipmap-xxhdpi", 144, 112>>,
       <<"mipmap-xxxhdpi", 192, 149>> >>

TierDirOf(t) == "android/app/src/main/res/" \o TierPixels[t][1]
SquareOf(t) == <<TierDirOf(t), "ic_launcher.png">>
RoundOf(t) == <<TierDirOf(t), "ic_launcher_round.png">>

\* width and height of the image in a file
Dim(f) == IF f.kind \in {"render", "resized", "composite"} THEN <<f.w, f.h>> ELSE <<0, 0>>

IsImage(f) == f.kind \in {"render", "resized", "composite"}

-----------------------------------------------------------------------------
(* C5 *)

\* C5: when a run has completed, the logo is 400x520, the icon, the round
\* icon and the store icon are 512x512, and each of the five tier directories
\* holds ic_launcher.png and ic_launcher_round.png of the tier's full size
\* (48, 72, 96, 144, 192), not of the render size; these two are the only
\* files of a tier directory that the run has touched.
C5_OutputSet ==
    pcIcon = "done" =>
        /\ Dim(fs[<<"src/assets/images", "pakuni-logo.png">>]) = <<400, 520>>
        /\ Dim(fs[<<"src/assets/images", "pakuni-icon.png">>]) = <<512, 512>>
        /\ Dim(fs[<<"src/assets/images", "pakuni-icon-round.png">>]) = <<512, 512>>
        /\ Dim(fs[<<"store-listing", "icon-512.png">>]) = <<512, 512>>
        /\ \A t \in 1..5 :
              /\ TierDirOf(t) \in dirs
              /\ Dim(fs[SquareOf(t)]) = <<TierPixels[t][2], TierPixels[t][2]>>
              /\ Dim(fs[RoundOf(t)]) = <<TierPixels[t][2], TierPixels[t][2]>>
              /\ Dim(fs[SquareOf(t)]) # <<TierPixels[t][3], TierPixels[t][3]>>
              /\ \A p \in Paths :
                    p[1] = TierDirOf(t) /\ p \notin {SquareOf(t), RoundOf(t)}
                        => fs[p] = fs0[p]

\* a first run has completed; a tier directory held another file before it
C5_Witness ==
    /\ pcIcon = "done"
    /\ run = 1
    /\ fs0[<<TierDirOf(1), "ic_launcher_foreground.png">>] = OtherFile
    /\ \A t \in 1..5 : IsImage(fs[SquareOf(t)]) /\ IsImage(fs[RoundOf(t)])

-----------------------------------------------------------------------------
(* C6 *)

\* C6: a run that completes after a completed run leaves the file system as
\* the first left it (the same files with the same sizes and geometry); a
\* completed run has made every destination directory; no run removes a
\* directory or touches a file that is not one of its outputs or temporaries.
C6_Idempotent ==
    /\ pcIcon = "done" /\ prevOK => fs = fs0 /\ dirs = dirs0
    /\ pcIcon = "done" => AllDirs \subseteq dirs
    /\ dirs0 \subseteq dirs
    /\ \A p \in UnrelatedPaths : fs[p] = fs0[p]

\* the second of two completed runs is over, and the unrelated files that
\* were in the destination directories before the first are still there
C6_Witness ==
    /\ pcIcon = "done"
    /\ prevOK
    /\ run = 2
    /\ \A p \in UnrelatedPaths : fs[p] = OtherFile

-----------------------------------------------------------------------------
(* C7 *)

\* C7: the image opened at line 54 is the render this run has just written,
\* the image opened at line 108 is the render this run has written for the
\* current tier (of the tier's render size) and it is what both launcher icons
\* of the tier are composed from; a temporary file is there whenever it is
\* about to be read, so no read fails; after a completed run neither temporary
\* file exists, whatever was there before.
C7_TempFiles ==
    /\ pcIcon = "open_icon" => fs[TEMP_ICON] # NoFile
    /\ pcIcon = "round" =>
          /\ stamp[TEMP_ICON] = [run |-> run, tier |-> 0]
          /\ icon_fg = fs[TEMP_ICON]
          /\ Dim(icon_fg) = <<400, 400>>
    /\ pcIcon = "tier_open" => fs[TEMP_MIPMAP] # NoFile
    /\ pcIcon \in {"tier_square", "tier_round"} =>
          /\ stamp[TEMP_MIPMAP] = [run |-> run, tier |-> tier]
          /\ fg = fs[TEMP_MIPMAP]
          /\ Dim(fg) = <<TierPixels[tier][3], TierPixels[tier][3]>>
    /\ pcIcon = "tier_round" => fs[SquareOf(tier)].fg = fg
    /\ pcIcon = "for_tier" /\ tier > 0 => fs[RoundOf(tier)].fg = fg
    /\ pcIcon = "failed" => errIcon.line \notin {54, 108}
    /\ pcIcon = "done" => fs[TEMP_ICON] = NoFile /\ fs[TEMP_MIPMAP] = NoFile

\* a run that found both temporary files left over has completed
C7_Witness ==
    /\ pcIcon = "done"
    /\ fs0[TEMP_ICON] = OtherFile
    /\ fs0[TEMP_MIPMAP] = OtherFile

-----------------------------------------------------------------------------
(* C8 *)

\* the writes of a run, in order: the line, the file, what is written
WriteSteps ==
    << [line |-> 26, tier |-> 0, path |-> LOGO_PNG, dim |-> <<400, 520>>],
       [line |-> 36, tier |-> 0, path |-> ICON_PNG, dim |-> <<512, 512>>],
       [line |-> 47, tier |-> 0, path |-> TEMP_ICON, dim |-> <<400, 400>>],
       [line |-> 71, tier |-> 0, path |-> ROUND_PNG, dim |-> <<512, 512>>],
       [line |-> 81, tier |-> 0, path |-> STORE_PNG, dim |-> <<512, 512>>] >>
    \o [k \in 1..15 |->
          LET t == ((k - 1) \div 3) + 1
              full == <<TierPixels[t][2], TierPixels[t][2]>>
              inner == <<TierPixels[t][3], TierPixels[t][3]>>
          IN  CASE (k - 1) % 3 = 0 ->
                     [line |-> 102, tier |-> t, path |-> TEMP_MIPMAP, dim |-> inner]
                [] (k - 1) % 3 = 1 ->
                     [line |-> 111, tier |-> t, path |-> SquareOf(t), dim |-> full]
                [] (k - 1) % 3 = 2 ->
                     [line |-> 122, tier |-> t, path |-> RoundOf(t), dim |-> full]]

\* the write at which the run failed
FailedStep ==
    CHOOSE k \in 1..Len(WriteSteps) :
        /\ WriteSteps[k].line = errIcon.line
        /\ WriteSteps[k].tier = tier

-----------------------------------------------------------------------------
(* C9 *)

\* step 4 is behind, the run goes on
AfterStore ==
    pcIcon \in {"for_tier", "tier_render", "tier_open", "tier_square",
                "tier_round", "cleanup_mipmap", "done"}

\* C9 as stated: the store icon's foreground is resized to a size smaller
\* than the intermediate render it is made from.
C9_ResizedSmaller ==
    AfterStore =>
        /\ fs[STORE_PNG].fg.w < fs[STORE_PNG].fg.of.w
        /\ fs[STORE_PNG].fg.h < fs[STORE_PNG].fg.of.h

\* C9 amended: the store icon is made from the intermediate render of step 3
\* (no new rasterization), resized to the fixed size 420x420, which is larger
\* than the 400x400 intermediate render and smaller than the square, and
\* composited with a centering offset onto an opaque white 512x512 square
\* without alpha channel, so the foreground lies inside the square with equal
\* margins on all sides.
C9_StoreIcon ==
    AfterStore =>
        LET s == fs[STORE_PNG] IN
        /\ s.kind = "composite" /\ s.mode = "RGB" /\ s.bg = <<255, 255, 255>>
        /\ ~s.ellipse
        /\ Dim(s) = <<512, 512>>
        /\ s.fg.kind = "resized"
        /\ s.fg.of = fs[ROUND_PNG].fg
        /\ s.fg.of = [kind |-> "render", src |-> "pakuni-icon.svg",
                      w |-> 400, h |-> 400, mode |-> "RGBA"]
        /\ Dim(s.fg) = <<420, 420>>
        /\ s.fg.w > s.fg.of.w /\ s.fg.w < s.w
        /\ s.x = s.y /\ s.x > 0
        /\ s.x + s.fg.w + s.x = s.w
        /\ s.y + s.fg.h + s.y = s.h

\* a run has completed and its store icon is in place
C9_Witness ==
    /\ pcIcon = "done"
    /\ run = 1
    /\ fs[STORE_PNG].kind = "composite"
    /\ fs[STORE_PNG].x = 46

=============================================================================
